---- MODULE Spec2Model ----
(***************************************************************************)
(* Model of the STEPBible TAGNT Textus Receptus importer                   *)
(* (scripts/import.ts) and of the gematria oracle of its tests             *)
(* (tests/import.test.ts).                                                 *)
(*                                                                         *)
(* A JavaScript string is modelled as a sequence of characters.  A         *)
(* character is a TLA+ string: an ASCII character stands for itself        *)
(* ("K", ".", "\t"), any other character is written by a name              *)
(* ("KELVIN" is U+212A, "alpha" is U+03B1, "cap-sigma" is U+03A3,          *)
(* "comb-acute" is U+0301).                                                *)
(***************************************************************************)
EXTENDS Integers, Sequences, FiniteSets, TLC

VARIABLES
    ref,        \* parseReference: the token handed to it
    parsed,     \* parseReference: what it returned (Pending before the call)
    flags,      \* isTrWord: the type string handed to it
    isTr,       \* isTrWord: what it returned (Pending before the call)
    text,       \* computeGreek: the text handed to it
    normalizedText, \* computeGreek: its local `normalized` (Pending before the call)
    gematria,   \* computeGreek: what it returned (Pending before the call)
    sourceFiles,    \* main: the contents of the source files, in order
    cached,         \* downloadFiles: the source files that exist in SOURCE_DIR
    files,          \* downloadFiles: the files pushed so far, in order
    error,          \* main: the error its catch clause caught (Null when none)
    filesDone,      \* main: how many source files have been parsed and merged
    allVerses,      \* main: the map allVerses
    saved,          \* main: how many entries of allVerses have been saved
    written,        \* the verse files written so far: [path, data], in order
    metadataSaved,  \* whether metadata.json has been written
    pc,             \* main: "download", "parse", "save", "done" or "failed"
    dataDir,        \* loadVerse, loadChapter: the files below DATA_PATH, path |-> content
    request,        \* loadVerse, loadChapter: the call made
    loaded,         \* loadVerse, loadChapter: how the call ended (Pending before it)
    fileContent,    \* parseTagntFile: the file content handed to it
    parsedMap       \* parseTagntFile: the map it returned (Pending before the call)

funVars == <<ref, parsed, flags, isTr, text, normalizedText, gematria>>
mainVars == <<sourceFiles, cached, files, error, filesDone, allVerses, saved, written,
              metadataSaved, pc>>
loadVars == <<dataDir, request, loaded>>
parseVars == <<fileContent, parsedMap>>
vars == <<funVars, mainVars, loadVars, parseVars>>

\* The value of a result variable before the call has been made.
Pending == [pending |-> TRUE]

\* A returned value that is not a record is kept wrapped.
Returned(v) == [value |-> v]

----------------------------------------------------------------------------
(* Characters and strings                                                  *)

UpperChars == {"A","B","C","D","E","F","G","H","I","J","K","L","M",
               "N","O","P","Q","R","S","T","U","V","W","X","Y","Z"}
LowerChars == {"a","b","c","d","e","f","g","h","i","j","k","l","m",
               "n","o","p","q","r","s","t","u","v","w","x","y","z"}
DigitChars == {"0","1","2","3","4","5","6","7","8","9"}

\* The 24 letters of the Greek alphabet, lower case, in alphabetical order.
GreekAlphabet ==
    <<"alpha", "beta", "gamma", "delta", "epsilon", "zeta", "eta", "theta",
      "iota", "kappa", "lambda", "mu", "nu", "xi", "omicron", "pi",
      "rho", "sigma", "tau", "upsilon", "phi", "chi", "psi", "omega">>
GreekLetters == {GreekAlphabet[i] : i \in 1..Len(GreekAlphabet)}

\* The numeral symbols U+03DB, U+03DF and U+03E1.
NumeralSymbols == {"stigma", "koppa", "sampi"}

\* The combining marks U+0301, U+0313, U+0342 and U+0345.
CombiningMarks == {"comb-acute", "comb-psili", "comb-perispomeni", "comb-ypogegrammeni"}

\* Precomposed letters: U+03CC, U+03AF, U+1F00, U+1FB3, U+1FC7, U+1FF7.
PrecomposedChars ==
    {"omicron-tonos", "iota-tonos", "alpha-psili", "alpha-ypogegrammeni",
     "eta-perispomeni-ypogegrammeni", "omega-perispomeni-ypogegrammeni"}

\* [A-Za-z0-9]
AlnumChars == UpperChars \cup LowerChars \cup DigitChars

\* The characters "." of a regular expression does not match.
LineTerminators == {"\n", "\r", "U+2028", "U+2029"}

\* String.prototype.includes, for a one-character needle.
Includes(s, c) == \E i \in 1..Len(s) : s[i] = c

\* The value of a decimal digit.
DigitVal(c) ==
    CASE c = "0" -> 0 [] c = "1" -> 1 [] c = "2" -> 2 [] c = "3" -> 3
      [] c = "4" -> 4 [] c = "5" -> 5 [] c = "6" -> 6 [] c = "7" -> 7
      [] c = "8" -> 8 [] c = "9" -> 9

\* parseInt(s, 10) of a string of decimal digits (the only strings the
\* importer hands to it are capture groups of \d+).
RECURSIVE parseInt(_)
parseInt(s) ==
    IF s = <<>> THEN 0
    ELSE 10 * parseInt(SubSeq(s, 1, Len(s) - 1)) + DigitVal(s[Len(s)])

\* The first index j >= i of s whose character is outside set (Len(s)+1 when
\* there is none): where a greedy run [set]* starting at i stops.
RECURSIVE RunEnd(_, _, _)
RunEnd(s, i, set) ==
    IF i > Len(s) \/ s[i] \notin set THEN i ELSE RunEnd(s, i + 1, set)

\* The character at index i, or the empty marker past the end.
At(s, i) == IF i \in 1..Len(s) THEN s[i] ELSE "EOS"

\* String.prototype.toLowerCase on one character: the ASCII capitals, and the
\* Kelvin sign U+212A, whose lower case is the ASCII "k".
ToLowerChar(c) ==
    CASE c = "A" -> "a" [] c = "B" -> "b" [] c = "C" -> "c" [] c = "D" -> "d"
      [] c = "E" -> "e" [] c = "F" -> "f" [] c = "G" -> "g" [] c = "H" -> "h"
      [] c = "I" -> "i" [] c = "J" -> "j" [] c = "K" -> "k" [] c = "L" -> "l"
      [] c = "M" -> "m" [] c = "N" -> "n" [] c = "O" -> "o" [] c = "P" -> "p"
      [] c = "Q" -> "q" [] c = "R" -> "r" [] c = "S" -> "s" [] c = "T" -> "t"
      [] c = "U" -> "u" [] c = "V" -> "v" [] c = "W" -> "w" [] c = "X" -> "x"
      [] c = "Y" -> "y" [] c = "Z" -> "z" [] c = "KELVIN" -> "k"
      [] c = "cap-beta" -> "beta" [] c = "cap-lambda" -> "lambda"
      [] c = "cap-sigma" -> "sigma" [] c = "cap-stigma" -> "stigma"
      [] OTHER -> c

\* The cased and the case-ignorable characters (Unicode properties Cased and
\* Case_Ignorable) among the characters of the model.
CasedChars ==
    UpperChars \cup LowerChars \cup GreekLetters \cup NumeralSymbols \cup
    {"final-sigma", "KELVIN", "cap-beta", "cap-lambda", "cap-sigma", "cap-stigma"} \cup
    PrecomposedChars
CaseIgnorableChars == CombiningMarks \cup {".", ":", "'", "middle-dot"}

\* The Final_Sigma condition of Unicode's SpecialCasing, which
\* String.prototype.toLowerCase applies to a capital sigma: a cased letter
\* before it and none after it, case-ignorable characters skipped.
FinalSigma(s, i) ==
    /\ \E j \in 1..(i - 1) :
           s[j] \in CasedChars /\ \A k \in (j + 1)..(i - 1) : s[k] \in CaseIgnorableChars
    /\ ~\E j \in (i + 1)..Len(s) :
           s[j] \in CasedChars /\ \A k \in (i + 1)..(j - 1) : s[k] \in CaseIgnorableChars

toLowerCase(s) ==
    [i \in 1..Len(s) |->
        IF s[i] = "cap-sigma" /\ FinalSigma(s, i) THEN "final-sigma"
        ELSE ToLowerChar(s[i])]

----------------------------------------------------------------------------
(* parseReference (scripts/import.ts)                                      *)

\* A capture group that did not take part in the match (undefined in
\* JavaScript).  A group that took part is a string of one digit or more,
\* so the two never coincide and only Undefined is falsy.
Undefined == <<>>

\* The result of String.prototype.match when the pattern does not match, and
\* of parseReference for such a token.
Null == [null |-> TRUE]

\* One optional group  (?:open(\d+)\.(\d+)close)?  tried at index i.  When the
\* character at i is not `open` the group is skipped.  When it is, the group
\* has to match: what follows the group in the pattern ("[" or "#") is never
\* `open`, so skipping it then cannot lead to a match.
PairGroup(s, i, open, close) ==
    IF At(s, i) # open
    THEN [ok |-> TRUE, a |-> Undefined, b |-> Undefined, next |-> i]
    ELSE LET aEnd == RunEnd(s, i + 1, DigitChars)
             bEnd == RunEnd(s, aEnd + 1, DigitChars)
         IN  IF /\ aEnd > i + 1
                /\ At(s, aEnd) = "."
                /\ bEnd > aEnd + 1
                /\ At(s, bEnd) = close
             THEN [ok |-> TRUE, a |-> SubSeq(s, i + 1, aEnd - 1),
                   b |-> SubSeq(s, aEnd + 1, bEnd - 1), next |-> bEnd + 1]
             ELSE [ok |-> FALSE, a |-> Undefined, b |-> Undefined, next |-> i]

\* (.+) read as if "." matched line terminators too.
TypeRunEnd_DotAll(s, i) == RunEnd(s, i, {s[j] : j \in 1..Len(s)})

\* The end of the run (.+) started at index i: "." matches every character
\* but a line terminator.
TypeRunEnd(s, i) == RunEnd(s, i, {s[j] : j \in 1..Len(s)} \ LineTerminators)

\* ref.match(/^([A-Za-z0-9]+)\.(\d+)\.(\d+)(?:\{(\d+)\.(\d+)\})?
\*            (?:\[(\d+)\.(\d+)\])?#(\d+)=(.+)$/)
\* Every run is followed in the pattern by a character outside the run's
\* class, so the greedy match is the only one there can be.
RefMatch(s) ==
    LET bookEnd == RunEnd(s, 1, AlnumChars)
        chEnd   == RunEnd(s, bookEnd + 1, DigitChars)
        vsEnd   == RunEnd(s, chEnd + 1, DigitChars)
        alt     == PairGroup(s, vsEnd, "{", "}")
        kjv     == PairGroup(s, alt.next, "[", "]")
        wnEnd   == RunEnd(s, kjv.next + 1, DigitChars)
        typeEnd == TypeRunEnd(s, wnEnd + 1)
    IN  IF /\ bookEnd > 1
           /\ At(s, bookEnd) = "."
           /\ chEnd > bookEnd + 1
           /\ At(s, chEnd) = "."
           /\ vsEnd > chEnd + 1
           /\ alt.ok
           /\ kjv.ok
           /\ At(s, kjv.next) = "#"
           /\ wnEnd > kjv.next + 1
           /\ At(s, wnEnd) = "="
           /\ typeEnd > wnEnd + 1
           /\ typeEnd = Len(s) + 1
        THEN [book  |-> SubSeq(s, 1, bookEnd - 1),
              ch    |-> SubSeq(s, bookEnd + 1, chEnd - 1),
              vs    |-> SubSeq(s, chEnd + 1, vsEnd - 1),
              altCh |-> alt.a, altVs |-> alt.b,
              kjvCh |-> kjv.a, kjvVs |-> kjv.b,
              wordNum |-> SubSeq(s, kjv.next + 1, wnEnd - 1),
              type  |-> SubSeq(s, wnEnd + 1, Len(s))]
        ELSE Null

\* The location with the bracket pair tried before the brace pair.
ResolveLocation_BracketFirst(m) ==
    IF Includes(m.type, "K") \/ Includes(toLowerCase(m.type), "k")
    THEN IF m.kjvCh # Undefined /\ m.kjvVs # Undefined
         THEN [chapter |-> parseInt(m.kjvCh), verse |-> parseInt(m.kjvVs)]
         ELSE IF m.altCh # Undefined /\ m.altVs # Undefined
              THEN [chapter |-> parseInt(m.altCh), verse |-> parseInt(m.altVs)]
              ELSE [chapter |-> parseInt(m.ch), verse |-> parseInt(m.vs)]
    ELSE [chapter |-> parseInt(m.ch), verse |-> parseInt(m.vs)]

\* The chapter and verse parseReference returns for the groups of a match.
ResolveLocation(m) ==
    IF Includes(m.type, "K") \/ Includes(toLowerCase(m.type), "k")
    THEN IF m.altCh # Undefined /\ m.altVs # Undefined
         THEN [chapter |-> parseInt(m.altCh), verse |-> parseInt(m.altVs)]
         ELSE IF m.kjvCh # Undefined /\ m.kjvVs # Undefined
              THEN [chapter |-> parseInt(m.kjvCh), verse |-> parseInt(m.kjvVs)]
              ELSE [chapter |-> parseInt(m.ch), verse |-> parseInt(m.vs)]
    ELSE [chapter |-> parseInt(m.ch), verse |-> parseInt(m.vs)]

\* parseReference: null when the pattern does not match, else the fields made
\* of the groups of the match.
parseReference(s) ==
    LET OfMatch(match) ==
            IF match = Null THEN Null
            ELSE LET loc == ResolveLocation(match)
                 IN  [book |-> match.book, chapter |-> loc.chapter,
                      verse |-> loc.verse, wordNum |-> parseInt(match.wordNum),
                      type |-> match.type]
    IN  OfMatch(RefMatch(s))

\* isTrWord that lets every type string through.
isTrWord_AnyType(type) == type # <<>>

\* isTrWord that tests for the capital letter alone.
isTrWord_CapitalOnly(type) == Includes(type, "K")

\* isTrWord (scripts/import.ts)
isTrWord(type) == Includes(type, "K") \/ Includes(type, "k")

----------------------------------------------------------------------------
(* The tokens parseReference is tried on                                   *)

\* Chapter, verse and word numbers of the tokens run over 0..MaxNum.
MaxNum == 2

\* String(n) for a natural number: its decimal digits.
DigitOf(d) ==
    CASE d = 0 -> "0" [] d = 1 -> "1" [] d = 2 -> "2" [] d = 3 -> "3"
      [] d = 4 -> "4" [] d = 5 -> "5" [] d = 6 -> "6" [] d = 7 -> "7"
      [] d = 8 -> "8" [] d = 9 -> "9"

RECURSIVE String(_)
String(n) == IF n < 10 THEN <<DigitOf(n)>>
             ELSE String(n \div 10) \o <<DigitOf(n % 10)>>

\* The digit strings of the tokens: each number plain and zero-padded, as the
\* corpus writes word numbers ("01").
NumStrs == {String(n) : n \in 0..MaxNum} \cup {<<"0">> \o String(n) : n \in 0..MaxNum}

\* The brace and bracket parts of the tokens; the empty string is "absent".
AltParts == {<<>>, <<"{", "8", ".", "1", "}">>, <<"{", "0", ".", "0", "}">>}
KjvParts == {<<>>, <<"[", "1", ".", "1", "7", "]">>, <<"[", "0", "0", ".", "3", "]">>}

WordNumStrs == {<<"0", "1">>, <<"0">>, <<"1", "2">>}

\* The type strings of the tokens: those of the tests of isTrWord, "NKO", and
\* two that hold the Kelvin sign in place of the letter.
TypeStrs ==
    { <<"K">>, <<"N", "K">>, <<"K", "O">>, <<"K", "(", "O", ")">>,
      <<"N", "(", "K", ")", "(", "O", ")">>, <<"n", "K", "o">>, <<"(", "k", ")">>,
      <<"N", "O">>, <<"N">>, <<"O">>, <<"N", "(", "O", ")">>, <<"N", "K", "O">>,
      <<"KELVIN">>, <<"N", "KELVIN", "O">> }

Token(book, ch, vs, alt, kjv, wn, type) ==
    book \o <<".">> \o ch \o <<".">> \o vs \o alt \o kjv \o <<"#">> \o wn \o <<"=">> \o type

\* Tokens of the grammar, built part by part.
BuiltTokens ==
    { Token(<<"M", "a", "t">>, ch, vs, alt, kjv, wn, type) :
        ch \in NumStrs, vs \in NumStrs, alt \in AltParts, kjv \in KjvParts,
        wn \in WordNumStrs, type \in TypeStrs }

\* The tokens of the tests of parseReference.
TestTokens ==
    { <<"M", "a", "t", ".", "1", ".", "1", "#", "0", "1", "=", "N", "K", "O">>,
      <<"R", "e", "v", ".", "2", "2", ".", "2", "1", "#", "1", "5", "=", "N", "K", "O">>,
      <<"J", "h", "n", ".", "7", ".", "5", "3", "{", "8", ".", "1", "}", "#", "0", "1", "=", "K", "(", "O", ")">>,
      <<"P", "h", "p", ".", "1", ".", "1", "6", "[", "1", ".", "1", "7", "]", "#", "0", "1", "=", "N", "K", "O">>,
      <<"R", "o", "m", ".", "1", "6", ".", "2", "5", "{", "1", "4", ".", "2", "4", "}", "#", "0", "1", "=", "K", "(", "O", ")">>,
      <<"i", "n", "v", "a", "l", "i", "d">>,
      <<"M", "a", "t", ".", "1", ".", "1">>,
      <<"M", "a", "t", ".", "1", ".", "1", "#", "0", "1">> }

\* Damaged tokens: one character of a token dropped, or overwritten.
DropAt(s, i) == SubSeq(s, 1, i - 1) \o SubSeq(s, i + 1, Len(s))
PutAt(s, i, c) == [s EXCEPT ![i] = c]
DamageChars == {"x", ".", "#", "=", "7", "{", "]", " ", "\n"}
DamagedTokens ==
    LET base == { Token(<<"M", "a", "t">>, <<"1">>, <<"2">>, alt, kjv, <<"0", "1">>, type) :
                    alt \in AltParts, kjv \in KjvParts, type \in {<<"K">>, <<"N", "O">>} }
    IN  UNION { {DropAt(t, i) : i \in 1..Len(t)} \cup
                {PutAt(t, i, c) : i \in 1..Len(t), c \in DamageChars} : t \in base }

RefTokens == BuiltTokens \cup TestTokens \cup DamagedTokens \cup {<<>>}

\* The strings over alphabet of length at most n.
RECURSIVE SeqsUpTo(_, _)
SeqsUpTo(alphabet, n) ==
    IF n = 0 THEN {<<>>}
    ELSE LET shorter == SeqsUpTo(alphabet, n - 1)
         IN  shorter \cup {Append(t, c) : t \in shorter, c \in alphabet}

\* The type strings isTrWord is tried on: every string of at most MaxFlagLen
\* characters of FlagChars, and the type strings of the tokens.
MaxFlagLen == 3
FlagChars == {"N", "K", "O", "n", "k", "(", ")", "KELVIN"}
FlagStrs == SeqsUpTo(FlagChars, MaxFlagLen) \cup TypeStrs

----------------------------------------------------------------------------
(* Specifications of the two pure functions of the reference resolver      *)

RefIdle == ref = <<>> /\ parsed = Pending
FlagsIdle == flags = <<>> /\ isTr = Pending
GemIdle == text = <<>> /\ normalizedText = Pending /\ gematria = Pending
MainIdle ==
    /\ sourceFiles = <<>> /\ cached = {} /\ files = <<>> /\ error = Null
    /\ filesDone = 0 /\ allVerses = <<>> /\ saved = 0
    /\ written = <<>> /\ metadataSaved = FALSE /\ pc = "idle"
LoadIdle == dataDir = <<>> /\ request = <<>> /\ loaded = Pending
ParseIdle == fileContent = <<>> /\ parsedMap = Pending

\* parseReference(ref)
CallParseReference ==
    /\ parsed = Pending
    /\ parsed' = parseReference(ref)
    /\ UNCHANGED <<ref, flags, isTr, text, normalizedText, gematria, mainVars, loadVars, parseVars>>

InitRef == ref \in RefTokens /\ parsed = Pending /\ FlagsIdle /\ GemIdle /\ MainIdle /\ LoadIdle /\ ParseIdle
NextRef == CallParseReference
SpecRef == InitRef /\ [][NextRef]_vars

\* isTrWord(flags)
CallIsTrWord ==
    /\ isTr = Pending
    /\ isTr' = Returned(isTrWord(flags))
    /\ UNCHANGED <<flags, ref, parsed, text, normalizedText, gematria, mainVars, loadVars, parseVars>>

InitFlags == flags \in FlagStrs /\ isTr = Pending /\ RefIdle /\ GemIdle /\ MainIdle /\ LoadIdle /\ ParseIdle
NextFlags == CallIsTrWord
SpecFlags == InitFlags /\ [][NextFlags]_vars

----------------------------------------------------------------------------
(* The grammar of reference tokens, stated part by part                    *)
(*   Book.Chapter.Verse{AltChapter.AltVerse}?[KjvChapter.KjvVerse]?        *)
(*   #WordNum=VariantFlags                                                 *)

Part(s, from, to) == SubSeq(s, from, to)

IsAlnums(s) == Len(s) >= 1 /\ \A i \in 1..Len(s) : s[i] \in AlnumChars
IsDigits(s) == Len(s) >= 1 /\ \A i \in 1..Len(s) : s[i] \in DigitChars
IsFlagText(s) == Len(s) >= 1 /\ \A i \in 1..Len(s) : s[i] \notin LineTerminators

\* Digits "." Digits
IsPair(s) ==
    \E d \in 1..Len(s) :
        s[d] = "." /\ IsDigits(Part(s, 1, d - 1)) /\ IsDigits(Part(s, d + 1, Len(s)))

IsWrappedPair(s, open, close) ==
    Len(s) >= 2 /\ s[1] = open /\ s[Len(s)] = close /\ IsPair(Part(s, 2, Len(s) - 1))

\* {Pair}?[Pair]?
IsOptionalPairs(s) ==
    \/ s = <<>>
    \/ IsWrappedPair(s, "{", "}")
    \/ IsWrappedPair(s, "[", "]")
    \/ \E k \in 1..Len(s) :
           s[k] = "}" /\ IsWrappedPair(Part(s, 1, k), "{", "}")
                      /\ IsWrappedPair(Part(s, k + 1, Len(s)), "[", "]")

\* Book "." Digits "." Digits {Pair}?[Pair]?
IsLocation(s) ==
    \E d1 \in 1..Len(s) :
        /\ s[d1] = "."
        /\ IsAlnums(Part(s, 1, d1 - 1))
        /\ \E d2 \in (d1 + 1)..Len(s) :
               /\ s[d2] = "."
               /\ IsDigits(Part(s, d1 + 1, d2 - 1))
               /\ \E e \in (d2 + 1)..Len(s) :
                      /\ IsDigits(Part(s, d2 + 1, e))
                      /\ IsOptionalPairs(Part(s, e + 1, Len(s)))

IsGrammar(t) ==
    \E h \in 1..Len(t) :
        /\ t[h] = "#"
        /\ IsLocation(Part(t, 1, h - 1))
        /\ \E e \in (h + 1)..Len(t) :
               /\ t[e] = "="
               /\ IsDigits(Part(t, h + 1, e - 1))
               /\ IsFlagText(Part(t, e + 1, Len(t)))

\* The parts of a token of the grammar, read off by its delimiters.
FirstIndex(s, c) == CHOOSE i \in 1..Len(s) : s[i] = c /\ \A j \in 1..(i - 1) : s[j] # c
LocationOf(t) == Part(t, 1, FirstIndex(t, "#") - 1)
FlagsOf(t) == Part(t, FirstIndex(t, "=") + 1, Len(t))
WordNumOf(t) == Part(t, FirstIndex(t, "#") + 1, FirstIndex(t, "=") - 1)
HasBrace(t) == Includes(LocationOf(t), "{")
HasBracket(t) == Includes(LocationOf(t), "[")
BraceOf(t) == Part(t, FirstIndex(t, "{") + 1, FirstIndex(t, "}") - 1)
BracketOf(t) == Part(t, FirstIndex(t, "[") + 1, FirstIndex(t, "]") - 1)
PrimaryOf(t) ==
    LET loc == LocationOf(t)
        upTo == IF HasBrace(t) THEN FirstIndex(loc, "{") - 1
                ELSE IF HasBracket(t) THEN FirstIndex(loc, "[") - 1
                ELSE Len(loc)
    IN  Part(loc, FirstIndex(loc, ".") + 1, upTo)

\* The number a string of digits denotes.
RECURSIVE Pow10(_)
Pow10(n) == IF n = 0 THEN 1 ELSE 10 * Pow10(n - 1)
RECURSIVE SumTo(_, _)
SumTo(f, n) == IF n = 0 THEN 0 ELSE f[n] + SumTo(f, n - 1)
NumberOf(ds) ==
    SumTo([i \in 1..Len(ds) |-> DigitVal(ds[i]) * Pow10(Len(ds) - i)], Len(ds))

\* The <<chapter, verse>> a text  Digits "." Digits  denotes.
PairOf(s) ==
    LET d == FirstIndex(s, ".")
    IN  <<NumberOf(Part(s, 1, d - 1)), NumberOf(Part(s, d + 1, Len(s)))>>

HasLetterK(s) == \E i \in 1..Len(s) : s[i] \in {"K", "k"}

ParsedOk == parsed # Pending /\ parsed # Null
Resolved == <<parsed.chapter, parsed.verse>>

----------------------------------------------------------------------------
(* Claims about parseReference and isTrWord                                *)

\* C1: a token of the grammar whose flags hold neither "K" nor "k" resolves
\* to its primary chapter.verse pair, whatever braces or brackets it has.
C1_NonMemberKeepsPrimary ==
    (parsed # Pending /\ IsGrammar(ref) /\ ~HasLetterK(FlagsOf(ref)))
        => (parsed # Null /\ Resolved = PairOf(PrimaryOf(ref)))

\* C2: a token of the grammar whose flags hold "K" or "k" resolves to its
\* brace pair when it has one, else to its bracket pair when it has one, else
\* to its primary pair; with both, the brace pair wins.
C2_MemberPrecedence ==
    (parsed # Pending /\ IsGrammar(ref) /\ HasLetterK(FlagsOf(ref)))
        => /\ parsed # Null
           /\ Resolved = IF HasBrace(ref) THEN PairOf(BraceOf(ref))
                         ELSE IF HasBracket(ref) THEN PairOf(BracketOf(ref))
                         ELSE PairOf(PrimaryOf(ref))
           /\ (ref = <<"J", "h", "n", ".", "7", ".", "5", "3", "{", "8", ".", "1", "}", "#", "0", "1", "=", "K", "(", "O", ")">> => Resolved = <<8, 1>>)
           /\ (ref = <<"P", "h", "p", ".", "1", ".", "1", "6", "[", "1", ".", "1", "7", "]", "#", "0", "1", "=", "N", "K", "O">> => Resolved = <<1, 17>>)
           /\ (ref = <<"R", "o", "m", ".", "1", "6", ".", "2", "5", "{", "1", "4", ".", "2", "4", "}", "#", "0", "1", "=", "K", "(", "O", ")">> => Resolved = <<14, 24>>)

\* C2 witness: a family member with a brace pair, a bracket pair and a
\* primary pair that all differ has been resolved to its brace pair.
C2_Witness ==
    /\ ParsedOk
    /\ HasLetterK(parsed.type)
    /\ HasBrace(ref) /\ HasBracket(ref)
    /\ PairOf(BraceOf(ref)) # PairOf(BracketOf(ref))
    /\ PairOf(BraceOf(ref)) # PairOf(PrimaryOf(ref))
    /\ Resolved = PairOf(BraceOf(ref))

\* C3: isTrWord(flags) is true exactly when "K" or "k" occurs in flags; the
\* other characters, parentheses among them, can be struck out without
\* changing the answer.
OnlyK(s) == SelectSeq(s, LAMBDA c : c \in {"K", "k"})
C3_IsTrWordIffK ==
    isTr # Pending =>
        /\ isTr.value = (OnlyK(flags) # <<>>)
        /\ (flags \in {<<"K">>, <<"N", "K">>, <<"K", "O">>, <<"K", "(", "O", ")">>, <<"N", "(", "K", ")", "(", "O", ")">>, <<"n", "K", "o">>, <<"(", "k", ")">>}
               => isTr.value = TRUE)
        /\ (flags \in {<<"N", "O">>, <<"N">>, <<"O">>, <<"N", "(", "O", ")">>}
               => isTr.value = FALSE)

\* C3 witness: a type string whose only K is lower case and in parentheses,
\* among other letters, has been found to be a TR word.
C3_Witness ==
    /\ isTr = Returned(TRUE)
    /\ ~Includes(flags, "K")
    /\ Includes(flags, "(")
    /\ Includes(flags, "N")

C5_PositiveFields ==
    ParsedOk => parsed.chapter >= 1 /\ parsed.verse >= 1 /\ parsed.wordNum >= 1

----------------------------------------------------------------------------
(* normalizeGreek and computeGreek (tests/import.test.ts)                  *)

GREEK_VALUES ==
    ("alpha" :> 1) @@ ("beta" :> 2) @@ ("gamma" :> 3) @@ ("delta" :> 4) @@
    ("epsilon" :> 5) @@ ("stigma" :> 6) @@ ("zeta" :> 7) @@ ("eta" :> 8) @@
    ("theta" :> 9) @@
    ("iota" :> 10) @@ ("kappa" :> 20) @@ ("lambda" :> 30) @@ ("mu" :> 40) @@
    ("nu" :> 50) @@ ("xi" :> 60) @@ ("omicron" :> 70) @@ ("pi" :> 80) @@
    ("koppa" :> 90) @@
    ("rho" :> 100) @@ ("sigma" :> 200) @@ ("final-sigma" :> 200) @@
    ("tau" :> 300) @@ ("upsilon" :> 400) @@ ("phi" :> 500) @@ ("chi" :> 600) @@
    ("psi" :> 700) @@ ("omega" :> 800) @@ ("sampi" :> 900)

GREEK_ORDINAL ==
    ("alpha" :> 1) @@ ("beta" :> 2) @@ ("gamma" :> 3) @@ ("delta" :> 4) @@
    ("epsilon" :> 5) @@ ("zeta" :> 6) @@ ("eta" :> 7) @@ ("theta" :> 8) @@
    ("iota" :> 9) @@ ("kappa" :> 10) @@ ("lambda" :> 11) @@ ("mu" :> 12) @@
    ("nu" :> 13) @@ ("xi" :> 14) @@ ("omicron" :> 15) @@ ("pi" :> 16) @@
    ("rho" :> 17) @@ ("sigma" :> 18) @@ ("final-sigma" :> 18) @@
    ("tau" :> 19) @@ ("upsilon" :> 20) @@ ("phi" :> 21) @@ ("chi" :> 22) @@
    ("psi" :> 23) @@ ("omega" :> 24)

\* The canonical decomposition of one character.
Decompose(c) ==
    CASE c = "omicron-tonos" -> <<"omicron", "comb-acute">>
      [] c = "iota-tonos" -> <<"iota", "comb-acute">>
      [] c = "alpha-psili" -> <<"alpha", "comb-psili">>
      [] c = "alpha-ypogegrammeni" -> <<"alpha", "comb-ypogegrammeni">>
      [] c = "eta-perispomeni-ypogegrammeni" ->
             <<"eta", "comb-perispomeni", "comb-ypogegrammeni">>
      [] c = "omega-perispomeni-ypogegrammeni" ->
             <<"omega", "comb-perispomeni", "comb-ypogegrammeni">>
      [] c = "KELVIN" -> <<"K">>
      [] OTHER -> <<c>>

\* The canonical combining class of a combining mark: 240 for the iota
\* subscript, 230 for the marks above.
CombiningClass(c) == IF c = "comb-ypogegrammeni" THEN 240 ELSE 230

\* The canonical ordering of a decomposed string: every run of combining
\* marks is sorted by combining class, marks of one class keeping their
\* order.
RECURSIVE CanonicalOrder(_)
CanonicalOrder(s) ==
    IF s = <<>> THEN <<>>
    ELSE IF s[1] \notin CombiningMarks THEN <<s[1]>> \o CanonicalOrder(Tail(s))
    ELSE LET runEnd == RunEnd(s, 1, CombiningMarks)
             run == SubSeq(s, 1, runEnd - 1)
         IN  SelectSeq(run, LAMBDA c : CombiningClass(c) = 230)
               \o SelectSeq(run, LAMBDA c : CombiningClass(c) = 240)
               \o CanonicalOrder(SubSeq(s, runEnd, Len(s)))

RECURSIVE DecomposeAll(_)
DecomposeAll(s) ==
    IF s = <<>> THEN <<>> ELSE Decompose(s[1]) \o DecomposeAll(Tail(s))

\* normalize('NFD') left out: the text as it is.
NFD_None(s) == s

\* text.normalize('NFD')
NFD(s) == CanonicalOrder(DecomposeAll(s))

\* The replacement of the iota subscript left out, so that the subscript
\* goes with the other combining marks.
ReplaceIotaSubscript_Dropped(s) == s

\* .replace(/ͅ/g, 'ι')
ReplaceIotaSubscript(s) ==
    [i \in 1..Len(s) |-> IF s[i] = "comb-ypogegrammeni" THEN "iota" ELSE s[i]]

\* The replace without its g flag: the first combining mark alone is removed.
RemoveCombiningMarks_FirstOnly(s) ==
    IF \E i \in 1..Len(s) : s[i] \in CombiningMarks
    THEN LET i == CHOOSE i \in 1..Len(s) :
                      s[i] \in CombiningMarks /\ \A j \in 1..(i - 1) : s[j] \notin CombiningMarks
         IN  SubSeq(s, 1, i - 1) \o SubSeq(s, i + 1, Len(s))
    ELSE s

\* .replace(/[̀-ͯ]/g, '')
RemoveCombiningMarks(s) == SelectSeq(s, LAMBDA c : c \notin CombiningMarks)

normalizeGreek(s) == toLowerCase(RemoveCombiningMarks(ReplaceIotaSubscript(NFD(s))))

\* The sum of the decimal digits of val (the inner while loop).
RECURSIVE DigitSum(_)
DigitSum(val) == IF val > 0 THEN (val % 10) + DigitSum(val \div 10) ELSE 0

\* The reduction with the outer loop run at most once.
Reduce_OnePass(val) == IF val > 9 THEN DigitSum(val) ELSE val

\* The outer while loop: digit sums until val <= 9.
RECURSIVE Reduce(_)
Reduce(val) == IF val > 9 THEN Reduce(DigitSum(val)) ELSE val

\* One turn of the loop with the standard value added only for a character
\* that has an ordinal too.
AddChar_OrdinalOnly(acc, char) ==
    IF char \in DOMAIN GREEK_ORDINAL
    THEN [acc EXCEPT !.standard = @ + GREEK_VALUES[char],
                     !.ordinal = @ + GREEK_ORDINAL[char],
                     !.reduced = @ + Reduce(GREEK_ORDINAL[char])]
    ELSE acc

\* One turn of the for loop of computeGreek on character char.
AddChar(acc, char) ==
    LET withStd == IF char \in DOMAIN GREEK_VALUES
                   THEN [acc EXCEPT !.standard = @ + GREEK_VALUES[char]]
                   ELSE acc
    IN  IF char \in DOMAIN GREEK_ORDINAL
        THEN [withStd EXCEPT !.ordinal = @ + GREEK_ORDINAL[char],
                             !.reduced = @ + Reduce(GREEK_ORDINAL[char])]
        ELSE withStd

\* The for loop of computeGreek over the first n characters.
RECURSIVE ComputeLoop(_, _)
ComputeLoop(normalized, n) ==
    IF n = 0 THEN [standard |-> 0, ordinal |-> 0, reduced |-> 0]
    ELSE AddChar(ComputeLoop(normalized, n - 1), normalized[n])

computeGreek(s) == LET normalized == normalizeGreek(s)
                   IN  ComputeLoop(normalized, Len(normalized))

----------------------------------------------------------------------------
(* Specification of computeGreek                                           *)

\* The texts computeGreek is tried on: every string of at most MaxTextLen
\* characters of TextChars, and the words of the tests.
MaxTextLen == 2
TextChars ==
    GreekLetters \cup NumeralSymbols \cup {"final-sigma"} \cup
    {"cap-beta", "cap-lambda", "cap-sigma"} \cup
    {"omicron-tonos", "alpha-psili", "alpha-ypogegrammeni",
     "eta-perispomeni-ypogegrammeni"} \cup
    {"comb-acute", "comb-ypogegrammeni"} \cup
    {" ", ",", "a"}

Logos == <<"lambda", "omicron-tonos", "gamma", "omicron", "final-sigma">>
LogosPlain == <<"lambda", "omicron", "gamma", "omicron", "final-sigma">>
Toi == <<"tau", "omega-perispomeni-ypogegrammeni">>
Archei == <<"alpha-psili", "rho", "chi", "eta-perispomeni-ypogegrammeni">>
Arche == <<"alpha-psili", "rho", "chi", "eta">>
Biblos == <<"cap-beta", "iota-tonos", "beta", "lambda", "omicron", "final-sigma">>
TestWords == {Logos, LogosPlain, Toi, Archei, Arche, Biblos}

Texts == SeqsUpTo(TextChars, MaxTextLen) \cup TestWords

\* computeGreek(text)
CallComputeGreek ==
    /\ gematria = Pending
    /\ normalizedText' = Returned(normalizeGreek(text))
    /\ gematria' = computeGreek(text)
    /\ UNCHANGED <<text, ref, parsed, flags, isTr, mainVars, loadVars, parseVars>>

InitGem == text \in Texts /\ normalizedText = Pending /\ gematria = Pending /\ RefIdle /\ FlagsIdle /\ MainIdle /\ LoadIdle /\ ParseIdle
NextGem == CallComputeGreek
SpecGem == InitGem /\ [][NextGem]_vars

\* The standard table as the claim describes it: the 27 numerals in order,
\* the k-th worth ((k-1) mod 9 + 1) units, tens or hundreds; the symbols for
\* 6, 90 and 900 stand at places 6, 18 and 27; the word-final sigma is
\* valued like sigma.
Numerals ==
    SubSeq(GreekAlphabet, 1, 5) \o <<"stigma">> \o SubSeq(GreekAlphabet, 6, 16)
        \o <<"koppa">> \o SubSeq(GreekAlphabet, 17, 24) \o <<"sampi">>
StandardValue(c) ==
    LET ch == IF c = "final-sigma" THEN "sigma" ELSE c
    IN  IF \E k \in 1..Len(Numerals) : Numerals[k] = ch
        THEN LET k == CHOOSE k \in 1..Len(Numerals) : Numerals[k] = ch
             IN  (((k - 1) % 9) + 1) * Pow10((k - 1) \div 9)
        ELSE 0

\* C10: compute(text).standard is the sum of the standard values of the
\* characters of the normalized text, a character without an entry counting
\* 0; whatever the text, what compute returns is a number.
C10_StandardIsTableSum ==
    gematria # Pending =>
        /\ gematria.standard \in Nat
        /\ LET n == normalizeGreek(text)
           IN  gematria.standard = SumTo([i \in 1..Len(n) |-> StandardValue(n[i])], Len(n))
        /\ (text = Logos => gematria.standard = 373)
        /\ (text = Toi => gematria.standard = 1110)
        /\ (text = <<"stigma", "koppa">> => gematria.standard = 96)
        /\ (text = <<"sigma", "final-sigma">> => gematria.standard = 400)

\* C10 witness: a text of a table letter and a character without an entry
\* has been computed, the total being the letter's value.
C10_Witness ==
    /\ gematria # Pending
    /\ text = <<"sampi", "a">>
    /\ gematria.standard = 900

\* The ordinal table as the claim describes it: the place 1..24 of a letter
\* in the alphabet, the word-final sigma at the place of sigma, and no place
\* (0) for any other character, the three numeral symbols among them.
OrdinalPlace(c) ==
    LET ch == IF c = "final-sigma" THEN "sigma" ELSE c
    IN  IF \E k \in 1..Len(GreekAlphabet) : GreekAlphabet[k] = ch
        THEN CHOOSE k \in 1..Len(GreekAlphabet) : GreekAlphabet[k] = ch
        ELSE 0

\* The single digit 1..9 that repeated digit sums of k >= 1 end in (0 for 0).
SingleDigit(k) == IF k = 0 THEN 0 ELSE ((k - 1) % 9) + 1

AccentMarks == CombiningMarks \ {"comb-ypogegrammeni"}

\* A precomposed letter and the same letter without its accent or breathing
\* (an iota subscript stays).
Unaccented(c) ==
    CASE c = "omicron-tonos" -> <<"omicron">>
      [] c = "iota-tonos" -> <<"iota">>
      [] c = "alpha-psili" -> <<"alpha">>
      [] c = "eta-perispomeni-ypogegrammeni" -> <<"eta", "comb-ypogegrammeni">>
      [] c = "omega-perispomeni-ypogegrammeni" -> <<"omega", "comb-ypogegrammeni">>
      [] OTHER -> <<c>>

\* The capital and small forms of one letter; capital sigma has two small
\* forms.
CasePairs ==
    { <<"cap-beta", "beta">>, <<"cap-lambda", "lambda">>,
      <<"cap-sigma", "sigma">>, <<"cap-sigma", "final-sigma">>,
      <<"cap-stigma", "stigma">> }
OtherCase(c) ==
    {pr[2] : pr \in {q \in CasePairs : q[1] = c}} \cup
    {pr[1] : pr \in {q \in CasePairs : q[2] = c}}

\* The texts one step away from t by an accent, a breathing or the case of a
\* letter: a mark taken out or put in, a precomposed letter written without
\* its accent, a letter written in its other case.
AccentOrCaseVariants(t) ==
    {SubSeq(t, 1, i - 1) \o SubSeq(t, i + 1, Len(t)) :
        i \in {k \in 1..Len(t) : t[k] \in AccentMarks}}
    \cup {SubSeq(t, 1, i) \o <<mark>> \o SubSeq(t, i + 1, Len(t)) :
              i \in 0..Len(t), mark \in AccentMarks}
    \cup {SubSeq(t, 1, i - 1) \o Unaccented(t[i]) \o SubSeq(t, i + 1, Len(t)) :
              i \in 1..Len(t)}
    \cup UNION {{[t EXCEPT ![i] = c] : c \in OtherCase(t[i])} : i \in 1..Len(t)}

\* C12: a text that differs from the computed one by accents, breathings or
\* letter case alone has the same standard, ordinal and reduced totals.
C12_AccentAndCaseInvariance ==
    gematria # Pending =>
        /\ \A t \in AccentOrCaseVariants(text) : computeGreek(t) = gematria
        /\ (text = Logos => computeGreek(LogosPlain) = gematria)

\* C12 witness: the accented word of the test has been computed, and the
\* unaccented one is among its variants.
C12_Witness ==
    /\ gematria # Pending
    /\ text = Logos
    /\ LogosPlain \in AccentOrCaseVariants(text)
    /\ gematria.standard = 373

\* A character that carries an iota subscript, written with a plain iota
\* after the letter instead, and written without the subscript.
HasIotaSubscript(c) ==
    c \in {"comb-ypogegrammeni", "alpha-ypogegrammeni",
           "eta-perispomeni-ypogegrammeni", "omega-perispomeni-ypogegrammeni"}
WithPlainIota(c) ==
    CASE c = "comb-ypogegrammeni" -> <<"iota">>
      [] c = "alpha-ypogegrammeni" -> <<"alpha", "iota">>
      [] c = "eta-perispomeni-ypogegrammeni" -> <<"eta", "comb-perispomeni", "iota">>
      [] c = "omega-perispomeni-ypogegrammeni" -> <<"omega", "comb-perispomeni", "iota">>
WithoutSubscript(c) ==
    CASE c = "comb-ypogegrammeni" -> <<>>
      [] c = "alpha-ypogegrammeni" -> <<"alpha">>
      [] c = "eta-perispomeni-ypogegrammeni" -> <<"eta", "comb-perispomeni">>
      [] c = "omega-perispomeni-ypogegrammeni" -> <<"omega", "comb-perispomeni">>
Rewrite(t, i, piece) == SubSeq(t, 1, i - 1) \o piece \o SubSeq(t, i + 1, Len(t))

\* C13: for every iota subscript of the computed text, the text with a plain
\* iota in its place has the same totals, and the text without it has a
\* standard total lower by exactly 10.
C13_IotaSubscriptIsIota ==
    gematria # Pending =>
        /\ \A i \in 1..Len(text) :
               HasIotaSubscript(text[i]) =>
                   /\ computeGreek(Rewrite(text, i, WithPlainIota(text[i]))) = gematria
                   /\ gematria.standard =
                          computeGreek(Rewrite(text, i, WithoutSubscript(text[i]))).standard + 10
        /\ (text = Archei => gematria.standard = 719 /\ computeGreek(Arche).standard = 709)

\* C13 witness: the word of the test, whose eta carries the subscript, has
\* been computed.
C13_Witness ==
    /\ gematria # Pending
    /\ text = Archei
    /\ HasIotaSubscript(text[4])
    /\ Rewrite(text, 4, WithoutSubscript(text[4])) = <<"alpha-psili", "rho", "chi", "eta", "comb-perispomeni">>
    /\ gematria.standard = 719

\* C14: normalizing the text normalizeGreek returned gives that text again,
\* also when the first pass turned iota subscripts into plain iotas.
C14_NormalizeIdempotent ==
    normalizedText # Pending =>
        /\ normalizeGreek(normalizedText.value) = normalizedText.value
        /\ \A i \in 1..Len(normalizedText.value) :
               normalizedText.value[i] \notin CombiningMarks \cup PrecomposedChars

\* C14 witness: a text with an accent and an iota subscript has been
\* normalized to the letter and a plain iota.
C14_Witness ==
    /\ normalizedText # Pending
    /\ text = Toi
    /\ normalizedText.value = <<"tau", "omega", "iota">>

----------------------------------------------------------------------------
(* String helpers of the importer                                          *)

\* The white space String.prototype.trim strips and \s matches, among the
\* characters of the model.
WhiteSpace == {" ", "\t", "\n", "\r"}

\* A value that may be null, when it is not.
NotNull(v) == [value |-> v]

RECURSIVE TrimStart(_)
TrimStart(s) == IF s # <<>> /\ s[1] \in WhiteSpace THEN TrimStart(Tail(s)) ELSE s
RECURSIVE TrimEnd(_)
TrimEnd(s) ==
    IF s # <<>> /\ s[Len(s)] \in WhiteSpace THEN TrimEnd(SubSeq(s, 1, Len(s) - 1)) ELSE s

\* String.prototype.trim
trim(s) == TrimEnd(TrimStart(s))

\* String.prototype.startsWith
startsWith(s, prefix) == Len(s) >= Len(prefix) /\ SubSeq(s, 1, Len(prefix)) = prefix

\* String.prototype.split for a one-character separator: the pieces between
\* the separators, in order; a string without the separator is one piece.
RECURSIVE split(_, _)
split(s, sep) ==
    IF ~Includes(s, sep) THEN <<s>>
    ELSE LET i == RunEnd(s, 1, {s[j] : j \in 1..Len(s)} \ {sep})
         IN  <<SubSeq(s, 1, i - 1)>> \o split(SubSeq(s, i + 1, Len(s)), sep)

\* Array.prototype.join for a one-character separator.
RECURSIVE join(_, _)
join(parts, sep) ==
    IF parts = <<>> THEN <<>>
    ELSE IF Len(parts) = 1 THEN parts[1]
    ELSE parts[1] \o <<sep>> \o join(Tail(parts), sep)

\* cols[i]?.trim() || '' : the trimmed column, the empty string when the
\* column is missing (i counts from 0, as in the code).
Col(cols, i) == IF i + 1 <= Len(cols) THEN trim(cols[i + 1]) ELSE <<>>

\* cols[i] || '' : the column as it is, the empty string when missing.
RawCol(cols, i) == IF i + 1 <= Len(cols) THEN cols[i + 1] ELSE <<>>

\* extractGreek: the run /^([^\(]+)/ trimmed, or the trimmed column when the
\* column is empty or starts with "(".
extractGreek(greekCol) ==
    LET runEnd == RunEnd(greekCol, 1, {greekCol[j] : j \in 1..Len(greekCol)} \ {"("})
    IN  IF runEnd > 1 THEN trim(SubSeq(greekCol, 1, runEnd - 1)) ELSE trim(greekCol)

\* parseStrongsAndMorph: the first two pieces of combined.split('='), trimmed;
\* the empty string for a missing piece.
parseStrongsAndMorph(combined) ==
    LET pieces == split(combined, "=")
    IN  [strongs |-> trim(pieces[1]),
         morph   |-> IF Len(pieces) >= 2 THEN trim(pieces[2]) ELSE <<>>]

BOOK_MAP ==
    (<<"M", "a", "t">> :> <<"M", "a", "t", "t">>) @@
    (<<"M", "r", "k">> :> <<"M", "a", "r", "k">>) @@
    (<<"L", "u", "k">> :> <<"L", "u", "k", "e">>) @@
    (<<"J", "h", "n">> :> <<"J", "o", "h", "n">>) @@
    (<<"A", "c", "t">> :> <<"A", "c", "t", "s">>) @@
    (<<"R", "o", "m">> :> <<"R", "o", "m">>) @@
    (<<"1", "C", "o">> :> <<"1", "C", "o", "r">>) @@
    (<<"2", "C", "o">> :> <<"2", "C", "o", "r">>) @@
    (<<"G", "a", "l">> :> <<"G", "a", "l">>) @@
    (<<"E", "p", "h">> :> <<"E", "p", "h">>) @@
    (<<"P", "h", "p">> :> <<"P", "h", "i", "l">>) @@
    (<<"C", "o", "l">> :> <<"C", "o", "l">>) @@
    (<<"1", "T", "h">> :> <<"1", "T", "h", "e", "s", "s">>) @@
    (<<"2", "T", "h">> :> <<"2", "T", "h", "e", "s", "s">>) @@
    (<<"1", "T", "i">> :> <<"1", "T", "i", "m">>) @@
    (<<"2", "T", "i">> :> <<"2", "T", "i", "m">>) @@
    (<<"T", "i", "t">> :> <<"T", "i", "t", "u", "s">>) @@
    (<<"P", "h", "m">> :> <<"P", "h", "l", "m">>) @@
    (<<"H", "e", "b">> :> <<"H", "e", "b">>) @@
    (<<"J", "a", "s">> :> <<"J", "a", "s">>) @@
    (<<"1", "P", "e">> :> <<"1", "P", "e", "t">>) @@
    (<<"2", "P", "e">> :> <<"2", "P", "e", "t">>) @@
    (<<"1", "J", "n">> :> <<"1", "J", "o", "h", "n">>) @@
    (<<"2", "J", "n">> :> <<"2", "J", "o", "h", "n">>) @@
    (<<"3", "J", "n">> :> <<"3", "J", "o", "h", "n">>) @@
    (<<"J", "u", "d">> :> <<"J", "u", "d", "e">>) @@
    (<<"R", "e", "v">> :> <<"R", "e", "v">>)

\* What BOOK_MAP[book] evaluates to.  BOOK_MAP is an object literal: a name it
\* does not define itself is looked up in Object.prototype, whose methods are
\* functions, which are truthy and print as FunctionText in a template
\* literal.  Of the names [A-Za-z0-9]+ can match, Object.prototype has
\* constructor (the function Object), toString, valueOf, toLocaleString,
\* hasOwnProperty, isPrototypeOf and propertyIsEnumerable.  Every other name
\* yields undefined.
InheritedNames ==
    { <<"c", "o", "n", "s", "t", "r", "u", "c", "t", "o", "r">>,
      <<"t", "o", "S", "t", "r", "i", "n", "g">>,
      <<"v", "a", "l", "u", "e", "O", "f">>,
      <<"t", "o", "L", "o", "c", "a", "l", "e", "S", "t", "r", "i", "n", "g">>,
      <<"h", "a", "s", "O", "w", "n", "P", "r", "o", "p", "e", "r", "t", "y">>,
      <<"i", "s", "P", "r", "o", "t", "o", "t", "y", "p", "e", "O", "f">>,
      <<"p", "r", "o", "p", "e", "r", "t", "y", "I", "s", "E", "n", "u", "m", "e", "r", "a", "b", "l", "e">> }
FunctionText(name) == <<"f", "u", "n", "c", "t", "i", "o", "n", " ">> \o name \o <<"(", ")", " ", "{", " ", "[", "n", "a", "t", "i", "v", "e", " ", "c", "o", "d", "e", "]", " ", "}">>
BookLookup(book) ==
    IF book \in DOMAIN BOOK_MAP THEN BOOK_MAP[book]
    ELSE IF book = <<"c", "o", "n", "s", "t", "r", "u", "c", "t", "o", "r">> THEN FunctionText(<<"O", "b", "j", "e", "c", "t">>)
    ELSE IF book \in InheritedNames THEN FunctionText(book)
    ELSE Undefined

----------------------------------------------------------------------------
(* parseTagntFile, the merge of main, and saveVerse (scripts/import.ts)    *)

\* A Map<string, ParsedWord[]> is the sequence of its entries [key, words] in
\* insertion order, which is the order a for-of loop visits them in.
MapHas(map, key) == \E i \in 1..Len(map) : map[i].key = key
MapIndex(map, key) == CHOOSE i \in 1..Len(map) : map[i].key = key

\* The lines parseTagntFile skips before it looks at the columns.
BoilerplatePrefixes ==
    { <<"W", "o", "r", "d", " ", "&", " ", "T", "y", "p", "e">>,
      <<"T", "A", "G", "N", "T">>,
      <<"(", "T", "h", "i", "s", " ", "i", "s">>,
      <<"A", "l", "l", " ", "t", "h", "e">>,
      <<"I", "n", "t", "r", "o", "d", "u", "c", "t", "i", "o", "n">>,
      <<"S", "p", "r", "e", "a", "d", "s", "h", "e", "e", "t">> }
SkippedLine(line) ==
    \/ trim(line) = <<>>
    \/ startsWith(line, <<"#">>)
    \/ startsWith(line, <<"=">>)
    \/ \E prefix \in BoilerplatePrefixes : startsWith(line, prefix)
    \/ startsWith(line, <<"\t">>)
    \/ ~Includes(line, "\t")

\* `${osisBook}.${parsed.chapter}.${parsed.verse}`
VerseKey(osisBook, chapter, verse) ==
    osisBook \o <<".">> \o String(chapter) \o <<".">> \o String(verse)

\* if (!verseMap.has(verseKey)) verseMap.set(verseKey, []);
\* verseMap.get(verseKey)!.push(word)
MapPush(map, key, word) ==
    IF MapHas(map, key)
    THEN [map EXCEPT ![MapIndex(map, key)].words = Append(@, word)]
    ELSE Append(map, [key |-> key, words |-> <<word>>])

\* One turn of the for loop of parseTagntFile: the map after `line`.  The
\* steps are those of the loop body, last first: OfWord from the test of
\* greek, OfParsed from the test of parsed, OfRefCol from the test of refCol,
\* OfCols from the test of cols.length.
ParseLine(verseMap, line) ==
    LET OfWord(cols, p, greek, sm, osisBook) ==
            IF greek = <<>> THEN verseMap
            ELSE IF osisBook = Undefined THEN verseMap
            ELSE MapPush(verseMap, VerseKey(osisBook, p.chapter, p.verse),
                         [book |-> osisBook, chapter |-> p.chapter,
                          verse |-> p.verse, wordNum |-> p.wordNum,
                          type |-> p.type, greek |-> greek,
                          translation |-> Col(cols, 2),
                          strongs |-> sm.strongs, morph |-> sm.morph,
                          gloss |-> Col(cols, 4), editions |-> Col(cols, 5)])
        OfParsed(cols, p) ==
            IF p = Null THEN verseMap
            ELSE IF ~isTrWord(p.type) THEN verseMap
            ELSE OfWord(cols, p, extractGreek(RawCol(cols, 1)),
                        parseStrongsAndMorph(RawCol(cols, 3)), BookLookup(p.book))
        OfRefCol(cols, refCol) ==
            IF refCol = <<>> \/ ~Includes(refCol, "#") THEN verseMap
            ELSE OfParsed(cols, parseReference(refCol))
        OfCols(cols) ==
            IF Len(cols) < 5 THEN verseMap ELSE OfRefCol(cols, Col(cols, 0))
    IN  IF SkippedLine(line) THEN verseMap ELSE OfCols(split(line, "\t"))

\* The for loop of parseTagntFile over the first n lines.
RECURSIVE ParseLines(_, _)
ParseLines(lines, n) ==
    IF n = 0 THEN <<>> ELSE ParseLine(ParseLines(lines, n - 1), lines[n])

parseTagntFile(content) ==
    LET lines == split(content, "\n") IN ParseLines(lines, Len(lines))

\* One turn of the merge loop of main with the words pushed one at a time
\* replaced by a set, which drops the words the key already had.
MergeEntry_Overwrite(all, entry) ==
    IF MapHas(all, entry.key)
    THEN [all EXCEPT ![MapIndex(all, entry.key)].words = entry.words]
    ELSE Append(all, entry)

\* One turn of the merge loop of main: allVerses after the entry [key, words].
MergeEntry(all, entry) ==
    IF MapHas(all, entry.key)
    THEN [all EXCEPT ![MapIndex(all, entry.key)].words = @ \o entry.words]
    ELSE Append(all, entry)

\* The merge loop of main over the first n entries of verseMap.
RECURSIVE MergeInto(_, _, _)
MergeInto(all, verseMap, n) ==
    IF n = 0 THEN all ELSE MergeEntry(MergeInto(all, verseMap, n - 1), verseMap[n])

\* words.sort((a, b) => a.wordNum - b.wordNum): Array.prototype.sort is
\* stable, so words of equal wordNum keep their order.  Insert puts w after
\* the words of sorted that are not greater.
RECURSIVE Insert(_, _)
Insert(sorted, w) ==
    IF sorted = <<>> THEN <<w>>
    ELSE IF sorted[Len(sorted)].wordNum - w.wordNum <= 0 THEN Append(sorted, w)
    ELSE Append(Insert(SubSeq(sorted, 1, Len(sorted) - 1), w), sorted[Len(sorted)])
RECURSIVE SortWords(_, _)
SortWords(words, n) ==
    IF n = 0 THEN <<>> ELSE Insert(SortWords(words, n - 1), words[n])

\* A word entry that takes the raw word number for its position.
WordEntry_RawPosition(w, idx) ==
    [position |-> w.wordNum,
     text |-> w.greek,
     lemma |-> IF w.strongs # <<>> THEN NotNull(<<w.strongs>>) ELSE Null,
     morph |-> IF w.morph # <<>> THEN NotNull(<<"r", "o", "b", "i", "n", "s", "o", "n", ":">> \o w.morph) ELSE Null,
     strongs |-> IF w.strongs # <<>> THEN NotNull(w.strongs) ELSE Null,
     translation |-> IF w.translation # <<>> THEN NotNull(w.translation) ELSE Null,
     gematria |-> computeGreek(w.greek)]

\* The word entry saveVerse makes of the word at index idx (from 0).
WordEntry(w, idx) ==
    [position |-> idx + 1,
     text |-> w.greek,
     lemma |-> IF w.strongs # <<>> THEN NotNull(<<w.strongs>>) ELSE Null,
     morph |-> IF w.morph # <<>> THEN NotNull(<<"r", "o", "b", "i", "n", "s", "o", "n", ":">> \o w.morph) ELSE Null,
     strongs |-> IF w.strongs # <<>> THEN NotNull(w.strongs) ELSE Null,
     translation |-> IF w.translation # <<>> THEN NotNull(w.translation) ELSE Null,
     gematria |-> computeGreek(w.greek)]

\* totals[k] = v, the sum forgotten.
AddToTotals_Overwrite(totals, g) ==
    [k \in DOMAIN totals \cup DOMAIN g |-> IF k \in DOMAIN g THEN g[k] ELSE totals[k]]

\* for (const [k, v] of Object.entries(entry.gematria))
\*     totals[k] = (totals[k] || 0) + v
AddToTotals(totals, g) ==
    [k \in DOMAIN totals \cup DOMAIN g |->
        IF k \in DOMAIN g
        THEN (IF k \in DOMAIN totals THEN totals[k] ELSE 0) + g[k]
        ELSE totals[k]]

\* The totals loop of saveVerse over the first n word entries; totals = {}
\* before the loop.
RECURSIVE Totals(_, _)
Totals(wordEntries, n) ==
    IF n = 0 THEN <<>>
    ELSE AddToTotals(Totals(wordEntries, n - 1), wordEntries[n].gematria)

\* text.replace(/\s+([,.;:!?·])/g, '$1'): a run of white space that a
\* punctuation mark follows is removed.
Punctuation == {",", ".", ";", ":", "!", "?", "middle-dot"}
\* text.replace(/\s([,.;:!?\u00b7])/g, '$1'): one white space character
\* before the mark, not the run.
RECURSIVE CollapseBeforePunctuation_OneSpace(_)
CollapseBeforePunctuation_OneSpace(s) ==
    IF s = <<>> THEN <<>>
    ELSE IF s[1] \in WhiteSpace /\ At(s, 2) \in Punctuation
    THEN CollapseBeforePunctuation_OneSpace(Tail(s))
    ELSE <<s[1]>> \o CollapseBeforePunctuation_OneSpace(Tail(s))

\* text.replace(/\s+([,.;:!?\u00b7])/g, '$1')
RECURSIVE CollapseBeforePunctuation(_)
CollapseBeforePunctuation(s) ==
    IF s = <<>> THEN <<>>
    ELSE IF s[1] \in WhiteSpace /\ At(s, RunEnd(s, 1, WhiteSpace)) \in Punctuation
    THEN CollapseBeforePunctuation(SubSeq(s, RunEnd(s, 1, WhiteSpace), Len(s)))
    ELSE <<s[1]>> \o CollapseBeforePunctuation(Tail(s))

\* The record saveVerse writes for the sorted words.
VerseData(sorted) ==
    LET wordEntries == [i \in 1..Len(sorted) |-> WordEntry(sorted[i], i - 1)]
    IN  [text |-> CollapseBeforePunctuation(
                      join([i \in 1..Len(wordEntries) |-> wordEntries[i].text], " ")),
         words |-> wordEntries,
         gematria |-> Totals(wordEntries, Len(wordEntries))]

\* join(DATA_DIR, book, String(chapter), `${verse}.json`), as the directories
\* below DATA_DIR and the file name.
VersePath(book, chapter, verse) ==
    <<book, String(chapter), String(verse) \o <<".", "j", "s", "o", "n">>>>

----------------------------------------------------------------------------
(* The corpus main is run on                                               *)

\* The number of source files (TAGNT_URLS.length).
NumFiles == 2

\* The corpus has at most MaxLines lines, spread over the source files.
MaxLines == 3

\* A five-column line: reference, Greek with its transliteration, English,
\* Strong's number and morphology, gloss.
DataLine(refCol, greek) ==
    refCol \o <<"\t">> \o greek \o <<" ", "(", "x", ")">> \o <<"\t">> \o <<"w">>
        \o <<"\t">> \o <<"G", "1", "=", "N">> \o <<"\t">> \o <<"g">>

Kai == <<"kappa", "alpha", "iota">>
En == <<"epsilon", "nu">>
\* A word text that begins with a punctuation mark and has two spaces
\* before its last one.
EnStop == <<",">> \o En \o <<" ", " ", ";">>

\* A word of the family at Mat.1.1.
LineMember == DataLine(<<"M", "a", "t", ".", "1", ".", "1", "#", "0", "2", "=", "N", "K", "O">>, Logos)
\* A word outside the family at the same address.
LineNonMember == DataLine(<<"M", "a", "t", ".", "1", ".", "1", "#", "0", "1", "=", "N", "O">>, Kai)
\* A word of the family at Mat.1.2 whose brace pair is 1.1.
LineBrace == DataLine(<<"M", "a", "t", ".", "1", ".", "2", "{", "1", ".", "1", "}", "#", "0", "1", "=", "K", "(", "O", ")">>, EnStop)
\* A word of the family with a brace pair and a bracket pair.
LineBoth == DataLine(<<"M", "a", "t", ".", "1", ".", "3", "{", "1", ".", "2", "}", "[", "1", ".", "1", "]", "#", "0", "4", "=", "k">>, Arche)
\* A word flagged with the Kelvin sign, with a brace pair.
LineKelvin == DataLine(<<"M", "a", "t", ".", "1", ".", "1", "{", "1", ".", "2", "}", "#", "0", "3", "=">> \o <<"KELVIN">>, Toi)
\* A line whose reference lacks "=Flags".
LineMalformed == DataLine(<<"M", "a", "t", ".", "1", ".", "1", "#", "0", "5">>, Biblos)

CorpusLines == {LineMember, LineNonMember, LineBrace, LineBoth, LineKelvin, LineMalformed}

\* The contents of the source files: the lines of each joined by "\n".
Corpora ==
    { <<join(first, "\n"), join(second, "\n")>> :
        <<first, second>> \in
            { pair \in SeqsUpTo(CorpusLines, MaxLines) \X SeqsUpTo(CorpusLines, MaxLines) :
                Len(pair[1]) + Len(pair[2]) <= MaxLines } }

----------------------------------------------------------------------------
(* main (scripts/import.ts), from the return of downloadFiles              *)

\* Where main is after an error was thrown in its try block: the catch clause
\* left the error unhandled and the run went on to the saving.
AfterThrow_Continue == "save"

\* Where main is after an error was thrown in its try block: the catch clause
\* logs it and ends the process with process.exit(1).
AfterThrow == "failed"

\* The step of downloadFiles after file i was pushed: the next turn of its
\* loop, or its return to main, which goes on to the parsing.
AfterPush(i) == IF i = NumFiles THEN "parse" ELSE "download"

\* One turn of the loop of downloadFiles for a file that exists in
\* SOURCE_DIR: the cached file is used.
UseCached ==
    /\ pc = "download"
    /\ Len(files) + 1 \in cached
    /\ files' = Append(files, Len(files) + 1)
    /\ pc' = AfterPush(Len(files) + 1)
    /\ UNCHANGED <<sourceFiles, cached, error, filesDone, allVerses, saved, written,
                   metadataSaved, funVars, loadVars, parseVars>>

\* One turn of the loop of downloadFiles for a file that is not in
\* SOURCE_DIR, the response being OK: the file is written and pushed.
DownloadFile ==
    /\ pc = "download"
    /\ Len(files) + 1 \notin cached
    /\ cached' = cached \cup {Len(files) + 1}
    /\ files' = Append(files, Len(files) + 1)
    /\ pc' = AfterPush(Len(files) + 1)
    /\ UNCHANGED <<sourceFiles, error, filesDone, allVerses, saved, written,
                   metadataSaved, funVars, loadVars, parseVars>>

\* The same turn when the response is not OK (downloadFiles throws "Failed
\* to download") or fetch rejects: main catches the error.
DownloadFails ==
    /\ pc = "download"
    /\ Len(files) + 1 \notin cached
    /\ \E thrown \in {[message |-> "Failed to download", file |-> Len(files) + 1, status |-> 404],
                      [message |-> "fetch failed", file |-> Len(files) + 1]} :
           error' = NotNull(thrown)
    /\ pc' = AfterThrow
    /\ UNCHANGED <<sourceFiles, cached, files, filesDone, allVerses, saved, written,
                   metadataSaved, funVars, loadVars, parseVars>>

\* One turn of the loop over the files: readFile, parseTagntFile and the merge
\* into allVerses.
ProcessFile ==
    /\ pc = "parse"
    /\ filesDone < Len(files)
    /\ LET verseMap == parseTagntFile(sourceFiles[files[filesDone + 1]])
       IN  allVerses' = MergeInto(allVerses, verseMap, Len(verseMap))
    /\ filesDone' = filesDone + 1
    /\ pc' = IF filesDone + 1 = Len(files) THEN "save" ELSE "parse"
    /\ UNCHANGED <<sourceFiles, cached, files, error, saved, written, metadataSaved,
                   funVars, loadVars, parseVars>>

\* The same turn when readFile rejects (the file cannot be read): main
\* catches the error.
ReadFails ==
    /\ pc = "parse"
    /\ filesDone < Len(files)
    /\ error' = NotNull([message |-> "EACCES", file |-> files[filesDone + 1]])
    /\ pc' = AfterThrow
    /\ UNCHANGED <<sourceFiles, cached, files, filesDone, allVerses, saved, written,
                   metadataSaved, funVars, loadVars, parseVars>>

\* One turn of the loop over allVerses: saveVerse for the next entry.  The
\* sort is in place, so the entry of allVerses is left sorted.
SaveVerse ==
    /\ pc = "save"
    /\ saved < Len(allVerses)
    /\ LET entry == allVerses[saved + 1]
           keyParts == split(entry.key, ".")
           book == keyParts[1]
           chapter == parseInt(keyParts[2])
           verse == parseInt(keyParts[3])
           sorted == SortWords(entry.words, Len(entry.words))
       IN  /\ allVerses' = [allVerses EXCEPT ![saved + 1].words = sorted]
           /\ written' = Append(written, [path |-> VersePath(book, chapter, verse),
                                           data |-> VerseData(sorted)])
    /\ saved' = saved + 1
    /\ UNCHANGED <<sourceFiles, cached, files, error, filesDone, metadataSaved, pc,
                   funVars, loadVars, parseVars>>

\* saveMetadata, after the last verse.
SaveMetadata ==
    /\ pc = "save"
    /\ saved = Len(allVerses)
    /\ metadataSaved' = TRUE
    /\ pc' = "done"
    /\ UNCHANGED <<sourceFiles, cached, files, error, filesDone, allVerses, saved,
                   written, funVars, loadVars, parseVars>>

\* main starts with any corpus at the URLs and any of the source files
\* already in SOURCE_DIR.
Init ==
    /\ sourceFiles \in Corpora
    /\ cached \in SUBSET (1..NumFiles)
    /\ files = <<>>
    /\ error = Null
    /\ filesDone = 0
    /\ allVerses = <<>>
    /\ saved = 0
    /\ written = <<>>
    /\ metadataSaved = FALSE
    /\ pc = "download"
    /\ RefIdle /\ FlagsIdle /\ GemIdle /\ LoadIdle /\ ParseIdle

Next ==
    \/ UseCached \/ DownloadFile \/ DownloadFails
    \/ ProcessFile \/ ReadFails
    \/ SaveVerse \/ SaveMetadata

Spec == Init /\ [][Next]_vars

----------------------------------------------------------------------------
(* Claims about the verse records main writes                              *)

Components == {"standard", "ordinal", "reduced"}

\* The lines of the corpus, file after file.
AllLines == split(sourceFiles[1], "\n") \o split(sourceFiles[2], "\n")

\* The reference token of a line: its first column.
TokenOf(line) == Part(line, 1, FirstIndex(line, "\t") - 1)

\* The lines that put a word in the map, and the Greek text of such a line.
KeptLine(line) == ParseLine(<<>>, line) # <<>>
GreekOf(line) == extractGreek(split(line, "\t")[2])
KeptLines == SelectSeq(AllLines, KeptLine)

\* The path of the verse a kept line belongs to by the versification rule:
\* the book's canonical name, and the brace pair, else the bracket pair,
\* else the primary pair of its token.
ResolvedPath(line) ==
    LET t == TokenOf(line)
        pair == IF HasBrace(t) THEN PairOf(BraceOf(t))
                ELSE IF HasBracket(t) THEN PairOf(BracketOf(t))
                ELSE PairOf(PrimaryOf(t))
    IN  <<BookLookup(Part(t, 1, FirstIndex(t, ".") - 1)),
          String(pair[1]), String(pair[2]) \o <<".", "j", "s", "o", "n">>>>

\* How many members of sequence seq satisfy Test.
Count(seq, Test(_)) == Len(SelectSeq(seq, Test))

Texts_(words) == [i \in 1..Len(words) |-> words[i].text]

\* C6: in every verse record written, each component of the verse's gematria
\* is the sum of that component over the record's words.
C6_VerseTotalsAreWordSums ==
    \A i \in 1..Len(written) :
        LET d == written[i].data
        IN  /\ DOMAIN d.gematria = Components
            /\ \A k \in Components :
                   d.gematria[k] =
                       SumTo([j \in 1..Len(d.words) |-> d.words[j].gematria[k]],
                             Len(d.words))

\* C6 witness: a verse of two words, each of a standard value above 0, has
\* been written with the sum of the two as its standard total.
C6_Witness ==
    \E i \in 1..Len(written) :
        LET d == written[i].data
        IN  /\ Len(d.words) = 2
            /\ d.words[1].gematria.standard > 0
            /\ d.words[2].gematria.standard > 0
            /\ d.gematria.standard =
                   d.words[1].gematria.standard + d.words[2].gematria.standard

\* C7: in every verse record written the words stand in ascending order of
\* their raw word numbers, and the i-th word has position i.
C7_SortedAndRanked ==
    \A i \in 1..Len(written) :
        LET w == written[i].data.words
            raw == allVerses[i].words
        IN  /\ Len(w) = Len(raw)
            /\ \A j \in 1..Len(w) :
                   /\ w[j].position = j
                   /\ w[j].text = raw[j].greek
                   /\ j < Len(w) => raw[j].wordNum <= raw[j + 1].wordNum

\* C7 witness: of a file whose lines give word 2 before word 1 of one verse,
\* and word 4 alone in another, the first verse has been written with word
\* 1 first and the second with word 4 at position 1.
C7_Witness ==
    /\ pc = "done"
    /\ sourceFiles = <<join(<<LineMember, LineBrace, LineBoth>>, "\n"), <<>>>>
    /\ Len(written) = 2
    /\ Texts_(written[1].data.words) = <<EnStop, Logos>>
    /\ written[2].data.words[1].position = 1
    /\ allVerses[2].words[1].wordNum = 4

\* C8: every word of every verse list has "K" or "k" in its flags, and a
\* corpus of one family line and one other line for the same primary address
\* ends with one verse record holding the family word alone.
TwoLineCorpora ==
    { <<join(<<LineMember, LineNonMember>>, "\n"), <<>>>>,
      <<join(<<LineNonMember, LineMember>>, "\n"), <<>>>>,
      <<LineMember, LineNonMember>>,
      <<LineNonMember, LineMember>>,
      <<<<>>, join(<<LineNonMember, LineMember>>, "\n")>> }
C8_OnlyFamilyWords ==
    /\ \A i \in 1..Len(allVerses) :
           \A j \in 1..Len(allVerses[i].words) : HasLetterK(allVerses[i].words[j].type)
    /\ (pc # "parse") =>
           SumTo([i \in 1..Len(allVerses) |-> Len(allVerses[i].words)], Len(allVerses))
               <= Count(AllLines, LAMBDA l : Includes(l, "\t") /\ Includes(TokenOf(l), "=")
                                              /\ HasLetterK(FlagsOf(TokenOf(l))))
    /\ (pc = "done" /\ sourceFiles \in TwoLineCorpora) =>
           /\ Len(written) = 1
           /\ Texts_(written[1].data.words) = <<Logos>>

\* C8 witness: the run on the two-line corpus, family line second, is done and
\* has written its one record.
C8_Witness ==
    /\ pc = "done"
    /\ sourceFiles = <<join(<<LineNonMember, LineMember>>, "\n"), <<>>>>
    /\ Len(written) = 1

\* C9: at the end of the run, for every kept line exactly one record has been
\* written at the path of the line's resolved reference, and every record
\* holds all and only the words of the kept lines resolved to its path, from
\* whichever file and primary address they come.
C9_GroupedByResolvedReference ==
    pc = "done" =>
        /\ \A i \in 1..Len(KeptLines) :
               Cardinality({j \in 1..Len(written) :
                               written[j].path = ResolvedPath(KeptLines[i])}) = 1
        /\ \A j \in 1..Len(written) :
               LET here == SelectSeq(KeptLines,
                                     LAMBDA l : ResolvedPath(l) = written[j].path)
                   words == written[j].data.words
               IN  /\ Len(here) >= 1
                   /\ Len(words) = Len(here)
                   /\ \A l \in CorpusLines :
                          Count(here, LAMBDA h : h = l)
                              = Count(words, LAMBDA w : w.text = GreekOf(l))

\* C9 witness: two family words of different primary addresses, one in each
\* file, have been written as one record of two words.
C9_Witness ==
    /\ pc = "done"
    /\ sourceFiles = <<LineMember, LineBrace>>
    /\ Len(written) = 1
    /\ Len(written[1].data.words) = 2

\* The characters of s at the indices outside `dropped`, in order.
RECURSIVE KeepFrom(_, _, _)
KeepFrom(s, i, dropped) ==
    IF i > Len(s) THEN <<>>
    ELSE (IF i \in dropped THEN <<>> ELSE <<s[i]>>) \o KeepFrom(s, i + 1, dropped)

\* The spaces that stand immediately before a punctuation mark, and the
\* white space characters with nothing but white space between them and the
\* next punctuation mark.
SpacesBeforeMark(s) ==
    {i \in 1..Len(s) : s[i] = " " /\ i < Len(s) /\ s[i + 1] \in Punctuation}
WhiteSpaceBeforeMark(s) ==
    {i \in 1..Len(s) :
        \E j \in (i + 1)..Len(s) :
            s[j] \in Punctuation /\ \A k \in i..(j - 1) : s[k] \in WhiteSpace}
JoinedTexts(d) == join(Texts_(d.words), " ")

\* C19 as stated: the text of every verse record written is the word texts
\* joined by single spaces without the one space immediately before each
\* punctuation mark, every other character kept.
C19_OneSpaceBeforeMarkRemoved ==
    \A i \in 1..Len(written) :
        LET d == written[i].data
        IN  d.text = KeepFrom(JoinedTexts(d), 1, SpacesBeforeMark(JoinedTexts(d)))

\* C19, amended: the text of every verse record written is the word texts,
\* in final word order, joined by single spaces, without the whole run of
\* white space before each punctuation mark, whether the run comes from the
\* joining or from inside a word text; every other character is kept, in
\* order.
C19_WhiteSpaceRunBeforeMarkRemoved ==
    \A i \in 1..Len(written) :
        LET d == written[i].data
        IN  d.text = KeepFrom(JoinedTexts(d), 1, WhiteSpaceBeforeMark(JoinedTexts(d)))

\* C19 witness: a verse of twice the word ",en  ;" has been written; its
\* text has neither the two spaces inside each word nor the joining space
\* before the second word's comma.
C19_Witness ==
    \E i \in 1..Len(written) :
        LET d == written[i].data
        IN  /\ Texts_(d.words) = <<EnStop, EnStop>>
            /\ d.text = <<",">> \o En \o <<";", ",">> \o En \o <<";">>

\* C16: once the retrieval of a source file has failed (a download not OK,
\* fetch rejecting, a source file that cannot be read), the run has ended as
\* failed and no verse record and no metadata has been written, whichever
\* files were cached and whichever downloaded.
C16_FailedSourceWritesNothing ==
    /\ error # Null => (pc = "failed" /\ written = <<>> /\ ~metadataSaved)
    /\ pc = "failed" => error # Null
    /\ written # <<>> => (Len(files) = NumFiles /\ filesDone = NumFiles)

\* C16 witness: the first file has been parsed into verses and the second
\* could not be read; the run has failed with nothing written.
C16_Witness ==
    /\ pc = "failed"
    /\ error = NotNull([message |-> "EACCES", file |-> 2])
    /\ filesDone = 1
    /\ allVerses # <<>>
    /\ written = <<>>

----------------------------------------------------------------------------
(* Specification of parseTagntFile                                         *)

\* A line of the given columns.
FileLine(cols) == join(cols, "\t")

\* A family word whose book code is not in BOOK_MAP.
LineUnknownBook == DataLine(<<"X", "y", "z", ".", "1", ".", "1", "#", "0", "1", "=", "K">>, Kai)
\* A family word whose book code is a name of Object.prototype.
LineInherited == DataLine(<<"c", "o", "n", "s", "t", "r", "u", "c", "t", "o", "r", ".", "1", ".", "1", "#", "0", "1", "=", "K">>, Toi)
\* A family word whose Greek column is blank.
LineNoGreek ==
    FileLine(<<<<"M", "a", "t", ".", "1", ".", "1", "#", "0", "3", "=", "K">>, <<" ">>, <<"w">>, <<"G", "1", "=", "N">>, <<"g">>>>)
\* The four-column data line of the tests.
LineFourCols ==
    FileLine(<<<<"M", "a", "t", ".", "1", ".", "1", "#", "0", "1", "=", "N", "K", "O">>, Biblos \o <<" ", "(", "B", "i", "b", "l", "o", "s", ")">>,
               <<"b", "o", "o", "k">>, <<"G", "0", "9", "7", "6", "=", "N", "-", "N", "S", "F">>>>)
\* Family words with a Strong's number with leading zeros, and with a sense
\* letter.
LineZeros ==
    FileLine(<<<<"M", "a", "t", ".", "1", ".", "5", "#", "0", "1", "=", "K">>, Archei \o <<" ", "(", "x", ")">>, <<"w">>,
               <<"G", "0", "9", "7", "6", "=", "N", "-", "N", "S", "F">>, <<"g">>>>)
LineSense ==
    FileLine(<<<<"M", "a", "t", ".", "1", ".", "4", "#", "0", "1", "=", "K">>, Arche \o <<" ", "(", "x", ")">>, <<"w">>,
               <<"G", "2", "4", "2", "4", "G", "=", "N", "-", "N", "S", "M", "-", "P">>, <<"g">>>>)
\* Lines of the file that are no data lines: a blank one, a family word
\* behind "#", "=", a tab and a boilerplate prefix, and one without a tab.
LineBlank == <<" ">>
LineComment == <<"#">> \o LineMember
LineRule == <<"=">> \o LineMember
LineIndented == <<"\t">> \o LineMember
LineBoilerplate == <<"T", "A", "G", "N", "T">> \o LineMember
LineNoTab == <<"M", "a", "t", ".", "1", ".", "1", "#", "0", "2", "=", "N", "K", "O">>

ParseLineSet ==
    {LineMember, LineBrace, LineNonMember, LineUnknownBook, LineInherited, LineNoGreek,
     LineFourCols, LineZeros, LineSense, LineBlank, LineComment, LineRule,
     LineIndented, LineBoilerplate, LineNoTab}

\* The file contents parseTagntFile is tried on: at most MaxParseLines of
\* the lines, joined by "\n".
MaxParseLines == 2
ParseContents == {join(ls, "\n") : ls \in SeqsUpTo(ParseLineSet, MaxParseLines)}

\* parseTagntFile(fileContent)
CallParseTagntFile ==
    /\ parsedMap = Pending
    /\ parsedMap' = Returned(parseTagntFile(fileContent))
    /\ UNCHANGED <<fileContent, funVars, mainVars, loadVars>>

InitParse ==
    /\ fileContent \in ParseContents
    /\ parsedMap = Pending
    /\ RefIdle /\ FlagsIdle /\ GemIdle /\ MainIdle /\ LoadIdle
NextParse == CallParseTagntFile
SpecParse == InitParse /\ [][NextParse]_vars

\* The lines of the content, and the content without its i-th line.
ContentLines == split(fileContent, "\n")
WithoutLine(i) ==
    join(SubSeq(ContentLines, 1, i - 1) \o SubSeq(ContentLines, i + 1, Len(ContentLines)),
         "\n")

\* The words of the map, verse after verse.
RECURSIVE WordsOf(_)
WordsOf(map) == IF map = <<>> THEN <<>> ELSE map[1].words \o WordsOf(Tail(map))

\* The book code of a token, and the lines whose first column is the token
\* of a family word.
BookOf(t) == Part(t, 1, FirstIndex(t, ".") - 1)
FamilyLine(line) ==
    /\ Includes(line, "\t")
    /\ IsGrammar(TokenOf(line))
    /\ HasLetterK(FlagsOf(TokenOf(line)))

\* C17: a line of a family word whose book code is not in the book table, or
\* whose extracted Greek text is empty, is skipped: the map is the map of the
\* content without that line, so the line adds no word and no verse key and
\* the other lines give what they give without it.
C17_SkippedLineIsAsAbsent ==
    parsedMap # Pending =>
        \A i \in 1..Len(ContentLines) :
            LET line == ContentLines[i]
            IN  (/\ FamilyLine(line)
                 /\ Len(split(line, "\t")) >= 5
                 /\ \/ BookOf(TokenOf(line)) \notin DOMAIN BOOK_MAP
                    \/ GreekOf(line) = <<>>)
                => parseTagntFile(WithoutLine(i)) = parsedMap.value

\* The lines the file format calls data lines: non-blank, with a tab,
\* beginning with a reference token (alphanumerics "." digits "." digits),
\* and not starting with "#", "=", a tab or a boilerplate prefix.
BeginsWithToken(line) ==
    \E a \in 1..Len(line), b \in 1..Len(line), c \in 1..Len(line) :
        /\ a < b /\ b < c
        /\ IsAlnums(Part(line, 1, a - 1))
        /\ line[a] = "." /\ IsDigits(Part(line, a + 1, b - 1))
        /\ line[b] = "." /\ IsDigits(Part(line, b + 1, c))
DataLineOfFormat(line) ==
    /\ \E i \in 1..Len(line) : line[i] \notin {" ", "\t"}
    /\ Includes(line, "\t")
    /\ BeginsWithToken(line)
    /\ line[1] \notin {"#", "=", "\t"}
    /\ \A prefix \in BoilerplatePrefixes : Part(line, 1, Len(prefix)) # prefix

\* The data lines that carry a word of the family, of a book of the table,
\* with a Greek text.
WordLine(line) ==
    /\ DataLineOfFormat(line)
    /\ FamilyLine(line)
    /\ BookOf(TokenOf(line)) \in DOMAIN BOOK_MAP
    /\ GreekOf(line) # <<>>
TableBooks == {BOOK_MAP[b] : b \in DOMAIN BOOK_MAP}
OfTableBook(word) == word.book \in TableBooks

\* C18: the lines treated as data lines are exactly the data lines of the
\* file format, the four-column line included: the map holds one word of a
\* book of the table for each data line that carries a family word of such
\* a book with a Greek text, and none for any other line.
C18_DataLinesAreTheFormatsDataLines ==
    parsedMap # Pending =>
        Count(WordsOf(parsedMap.value), OfTableBook) = Count(ContentLines, WordLine)

\* The Strong's/morphology column of a line, and its form
\* "G" digits, an optional capital sense letter, "=", a morphology code.
StrongsColumn(line) == split(line, "\t")[4]
NumberPart(col) == Part(col, 2, FirstIndex(col, "=") - 1)
StrongsDigits(col) ==
    IF NumberPart(col)[Len(NumberPart(col))] \in UpperChars
    THEN Part(NumberPart(col), 1, Len(NumberPart(col)) - 1)
    ELSE NumberPart(col)
MorphPart(col) == Part(col, FirstIndex(col, "=") + 1, Len(col))
IsDStrongs(col) ==
    /\ Len(col) >= 1 /\ col[1] = "G"
    /\ Includes(col, "=")
    /\ Len(NumberPart(col)) >= 1
    /\ IsDigits(StrongsDigits(col))
    /\ Len(MorphPart(col)) >= 1

\* C20: for every line that puts a word in the map and whose Strong's column
\* has the form G<digits><sense letter>=<morph>, the word entry made of the
\* word has strongs "G" and the number without leading zeros and without the
\* sense letter, and morph "robinson:" and the morphology code.
C20_StrongsNumberAndRobinsonMorph ==
    parsedMap # Pending =>
        \A i \in 1..Len(ContentLines) :
            LET line == ContentLines[i]
            IN  (WordLine(line) /\ Len(split(line, "\t")) >= 5 /\ IsDStrongs(StrongsColumn(line)))
                => \E j \in 1..Len(WordsOf(parsedMap.value)) :
                       LET entry == WordEntry(WordsOf(parsedMap.value)[j], j - 1)
                       IN  /\ entry.text = GreekOf(line)
                           /\ entry.strongs =
                                  NotNull(<<"G">> \o String(NumberOf(StrongsDigits(StrongsColumn(line)))))
                           /\ entry.morph =
                                  NotNull(<<"r", "o", "b", "i", "n", "s", "o", "n", ":">> \o
                                          MorphPart(StrongsColumn(line)))

----------------------------------------------------------------------------
(* loadVerse and loadChapter (src/source.ts)                               *)

BOOK_TO_OSIS ==
    (<<"M", "a", "t", "t", "h", "e", "w">> :> <<"M", "a", "t", "t">>) @@
    (<<"M", "a", "r", "k">> :> <<"M", "a", "r", "k">>) @@
    (<<"L", "u", "k", "e">> :> <<"L", "u", "k", "e">>) @@
    (<<"J", "o", "h", "n">> :> <<"J", "o", "h", "n">>) @@
    (<<"A", "c", "t", "s">> :> <<"A", "c", "t", "s">>) @@
    (<<"R", "o", "m", "a", "n", "s">> :> <<"R", "o", "m">>) @@
    (<<"1", " ", "C", "o", "r", "i", "n", "t", "h", "i", "a", "n", "s">> :> <<"1", "C", "o", "r">>) @@
    (<<"2", " ", "C", "o", "r", "i", "n", "t", "h", "i", "a", "n", "s">> :> <<"2", "C", "o", "r">>) @@
    (<<"G", "a", "l", "a", "t", "i", "a", "n", "s">> :> <<"G", "a", "l">>) @@
    (<<"E", "p", "h", "e", "s", "i", "a", "n", "s">> :> <<"E", "p", "h">>) @@
    (<<"P", "h", "i", "l", "i", "p", "p", "i", "a", "n", "s">> :> <<"P", "h", "i", "l">>) @@
    (<<"C", "o", "l", "o", "s", "s", "i", "a", "n", "s">> :> <<"C", "o", "l">>) @@
    (<<"1", " ", "T", "h", "e", "s", "s", "a", "l", "o", "n", "i", "a", "n", "s">> :> <<"1", "T", "h", "e", "s", "s">>) @@
    (<<"2", " ", "T", "h", "e", "s", "s", "a", "l", "o", "n", "i", "a", "n", "s">> :> <<"2", "T", "h", "e", "s", "s">>) @@
    (<<"1", " ", "T", "i", "m", "o", "t", "h", "y">> :> <<"1", "T", "i", "m">>) @@
    (<<"2", " ", "T", "i", "m", "o", "t", "h", "y">> :> <<"2", "T", "i", "m">>) @@
    (<<"T", "i", "t", "u", "s">> :> <<"T", "i", "t", "u", "s">>) @@
    (<<"P", "h", "i", "l", "e", "m", "o", "n">> :> <<"P", "h", "l", "m">>) @@
    (<<"H", "e", "b", "r", "e", "w", "s">> :> <<"H", "e", "b">>) @@
    (<<"J", "a", "m", "e", "s">> :> <<"J", "a", "s">>) @@
    (<<"1", " ", "P", "e", "t", "e", "r">> :> <<"1", "P", "e", "t">>) @@
    (<<"2", " ", "P", "e", "t", "e", "r">> :> <<"2", "P", "e", "t">>) @@
    (<<"1", " ", "J", "o", "h", "n">> :> <<"1", "J", "o", "h", "n">>) @@
    (<<"2", " ", "J", "o", "h", "n">> :> <<"2", "J", "o", "h", "n">>) @@
    (<<"3", " ", "J", "o", "h", "n">> :> <<"3", "J", "o", "h", "n">>) @@
    (<<"J", "u", "d", "e">> :> <<"J", "u", "d", "e">>) @@
    (<<"R", "e", "v", "e", "l", "a", "t", "i", "o", "n">> :> <<"R", "e", "v">>)

\* A JavaScript value that is a string, and one that is a function object
\* (such as BOOK_TO_OSIS['constructor']).
StringValue(str) == [string |-> str]
FunctionObject(name) == [function |-> name]
IsString(v) == "string" \in DOMAIN v

\* toOsis: BOOK_TO_OSIS[book] || book.  BOOK_TO_OSIS is an object literal, so
\* a name of Object.prototype yields that function, which is truthy.
toOsis(book) ==
    IF book \in DOMAIN BOOK_TO_OSIS THEN StringValue(BOOK_TO_OSIS[book])
    ELSE IF book \in InheritedNames THEN FunctionObject(book)
    ELSE StringValue(book)

\* What a call ends with: the value it returns, or the error it throws.
Thrown(err) == [threw |-> err]
SyntaxError == Thrown([name |-> "SyntaxError"])
ENOENT == Thrown([name |-> "Error", code |-> "ENOENT"])
Threw(outcome) == "threw" \in DOMAIN outcome

\* JSON.parse on a text of the characters "[", "]", "," and "1": the value of
\* the text when it is a JSON value (a number, or an array of values), a
\* SyntaxError when it is not.  ParseValue reads one value from index i on,
\* ParseElements the elements of an array after its "[" up to its "]".
RECURSIVE ParseValue(_, _)
RECURSIVE ParseElements(_, _, _)
ParseValue(s, i) ==
    IF At(s, i) = "1"
    THEN [ok |-> TRUE, next |-> RunEnd(s, i, {"1"}),
          value |-> [number |-> parseInt(SubSeq(s, i, RunEnd(s, i, {"1"}) - 1))]]
    ELSE IF At(s, i) = "[" /\ At(s, i + 1) = "]"
    THEN [ok |-> TRUE, next |-> i + 2, value |-> [array |-> <<>>]]
    ELSE IF At(s, i) = "["
    THEN ParseElements(s, i + 1, <<>>)
    ELSE [ok |-> FALSE]
ParseElements(s, i, acc) ==
    LET After(v) ==
            IF ~v.ok THEN [ok |-> FALSE]
            ELSE IF At(s, v.next) = ","
            THEN ParseElements(s, v.next + 1, Append(acc, v.value))
            ELSE IF At(s, v.next) = "]"
            THEN [ok |-> TRUE, next |-> v.next + 1,
                  value |-> [array |-> Append(acc, v.value)]]
            ELSE [ok |-> FALSE]
    IN  After(ParseValue(s, i))
JSONParse(s) ==
    LET Whole(v) == IF v.ok /\ v.next = Len(s) + 1 THEN Returned(v.value) ELSE SyntaxError
    IN  Whole(ParseValue(s, 1))

\* readFile(filePath, 'utf-8') on the files of dir.
readFile(dir, filePath) ==
    IF filePath \in DOMAIN dir THEN Returned(dir[filePath]) ELSE ENOENT

\* readdir(chapterPath): the names of the files of the directory, which
\* exists when a file lies in it.
readdir(dir, book, chapter) ==
    LET names == {path[3] : path \in {q \in DOMAIN dir : q[1] = book /\ q[2] = chapter}}
    IN  IF names = {} THEN ENOENT ELSE Returned(names)

\* path.join throws a TypeError for an argument that is not a string; the
\* calls are made before the try blocks.
InvalidArgType == Thrown([name |-> "TypeError", code |-> "ERR_INVALID_ARG_TYPE"])

\* The Errors loadVerse and loadChapter throw from their catch clauses.
VerseNotFound(book, chapter, verse) ==
    Thrown([name |-> "Error", what |-> "Verse", book |-> book, chapter |-> chapter,
            verse |-> verse, message |-> "not found in stepbible-tagnt-tr"])
ChapterNotFound(book, chapter) ==
    Thrown([name |-> "Error", what |-> "Chapter", book |-> book, chapter |-> chapter,
            message |-> "not found in stepbible-tagnt-tr"])

\* loadVerse: what the call ends with.
loadVerse(dir, book, chapter, verse) ==
    LET OfContent(content) ==
            IF Threw(content) THEN VerseNotFound(book, chapter, verse)
            ELSE LET OfParse(outcome) ==
                         IF Threw(outcome) THEN VerseNotFound(book, chapter, verse)
                         ELSE outcome
                 IN  OfParse(JSONParse(content.value))
        OfBook(osisBook) ==
            IF ~IsString(osisBook) THEN InvalidArgType
            ELSE OfContent(readFile(dir, VersePath(osisBook.string, chapter, verse)))
    IN  OfBook(toOsis(book))

\* String.prototype.endsWith
endsWith(s, suffix) ==
    Len(s) >= Len(suffix) /\ SubSeq(s, Len(s) - Len(suffix) + 1, Len(s)) = suffix

DotJson == <<".", "j", "s", "o", "n">>

\* parseInt(name.replace('.json', ''), 10) for a name `${verse}.json`.
FileNumber(name) == parseInt(SubSeq(name, 1, Len(name) - Len(DotJson)))

\* files.filter(f => f.endsWith('.json')).sort(by number): the names in
\* ascending order of their numbers.
RECURSIVE SortByNumber(_)
SortByNumber(names) ==
    IF names = {} THEN <<>>
    ELSE LET first == CHOOSE f \in names : \A g \in names : FileNumber(f) <= FileNumber(g)
         IN  <<first>> \o SortByNumber(names \ {first})

\* loadChapter: what the call ends with.
loadChapter(dir, book, chapter) ==
    LET OfFiles(names) ==
            IF Threw(names) THEN ChapterNotFound(book, chapter)
            ELSE LET OfParses(outcomes) ==
                         IF \E k \in 1..Len(outcomes) : Threw(outcomes[k])
                         THEN ChapterNotFound(book, chapter)
                         ELSE Returned([k \in 1..Len(outcomes) |-> outcomes[k].value])
                     InOrder(jsonFiles, osisBook) ==
                         OfParses([k \in 1..Len(jsonFiles) |->
                             JSONParse(readFile(dir, <<osisBook, String(chapter), jsonFiles[k]>>).value)])
                 IN  InOrder(SortByNumber({f \in names.value : endsWith(f, DotJson)}),
                             toOsis(book).string)
        OfBook(osisBook) ==
            IF ~IsString(osisBook) THEN InvalidArgType
            ELSE OfFiles(readdir(dir, osisBook.string, String(chapter)))
    IN  OfBook(toOsis(book))

----------------------------------------------------------------------------
(* Specification of loadVerse and loadChapter                              *)

\* The texts of the stored files: every text of at most MaxContentLen of the
\* characters JSON.parse is modelled on.  A text that does not parse is what
\* a write that was cut short, or a file put there by hand, leaves.
MaxContentLen == 2
JsonChars == {"[", "]", ",", "1"}
Contents == SeqsUpTo(JsonChars, MaxContentLen)

Matt == <<"M", "a", "t", "t">>
Matthew == <<"M", "a", "t", "t", "h", "e", "w">>

\* The data directories tried: any of the files Matt/1/1.json and
\* Matt/1/2.json, each with any of the texts.
StoredPaths == {VersePath(Matt, 1, 1), VersePath(Matt, 1, 2)}
DataDirs == UNION {[paths -> Contents] : paths \in SUBSET StoredPaths}

\* The calls tried: a book of the table, an OSIS name, a book without data
\* and a name of Object.prototype.
RequestBooks ==
    {Matthew, Matt, <<"M", "a", "r", "k">>,
     <<"c", "o", "n", "s", "t", "r", "u", "c", "t", "o", "r">>}
Requests ==
    [op : {"loadVerse"}, book : RequestBooks, chapter : 1..2, verse : 1..2] \cup
    [op : {"loadChapter"}, book : RequestBooks, chapter : 1..2]

CallLoadVerse ==
    /\ loaded = Pending
    /\ request.op = "loadVerse"
    /\ loaded' = loadVerse(dataDir, request.book, request.chapter, request.verse)
    /\ UNCHANGED <<dataDir, request, funVars, mainVars, parseVars>>

CallLoadChapter ==
    /\ loaded = Pending
    /\ request.op = "loadChapter"
    /\ loaded' = loadChapter(dataDir, request.book, request.chapter)
    /\ UNCHANGED <<dataDir, request, funVars, mainVars, parseVars>>

InitLoad ==
    /\ dataDir \in DataDirs
    /\ request \in Requests
    /\ loaded = Pending
    /\ RefIdle /\ FlagsIdle /\ GemIdle /\ MainIdle /\ ParseIdle
NextLoad == CallLoadVerse \/ CallLoadChapter
SpecLoad == InitLoad /\ [][NextLoad]_vars

\* The directory of a book in the produced data, and whether the verse or
\* the chapter asked for exists there.
DirOf(book) == IF book \in DOMAIN BOOK_TO_OSIS THEN BOOK_TO_OSIS[book] ELSE book
RequestedExists ==
    IF request.op = "loadVerse"
    THEN VersePath(DirOf(request.book), request.chapter, request.verse) \in DOMAIN dataDir
    ELSE \E path \in DOMAIN dataDir :
             path[1] = DirOf(request.book) /\ path[2] = String(request.chapter)
IsNotFound(outcome) ==
    /\ Threw(outcome)
    /\ "message" \in DOMAIN outcome.threw
    /\ outcome.threw.message = "not found in stepbible-tagnt-tr"

\* C15: a call of loadVerse or loadChapter ends with the "not found" error
\* exactly when the verse or chapter asked for does not exist in the data: a
\* missing one is reported as not found, and a stored record that does not
\* parse is not.
C15_NotFoundIffAbsent ==
    loaded # Pending => (IsNotFound(loaded) <=> ~RequestedExists)

====
